---- MODULE Spec2Model ----
(***************************************************************************)
(* Model of the two documentation-maintenance scripts of dgl_docs:         *)
(*   versions.py             the branch manifest generator                 *)
(*   add_version_sidebar.py  the version-sidebar injector                  *)
(* The two scripts share no state; each has its own specification          *)
(* (SpecManifest, Spec) over its own variables, the other script's         *)
(* variables staying at their idle values.                                 *)
(***************************************************************************)
EXTENDS Integers, Sequences, FiniteSets, TLC

VARIABLES
    \* ---- versions.py ----
    argv,          \* sys.argv: <<script name, branch1, branch2, ...>>
    writable,      \* whether open(output_file, 'w') succeeds
    gpc,           \* position in versions.py
    data,          \* data["branches"]: sequence of [name, url] records
    outExists,     \* whether branches.json exists
    outFile,       \* text of branches.json, as its sequence of lines
    outOpened,     \* whether this invocation opened branches.json for writing
    gout,          \* lines printed to standard output by versions.py
    gexit          \* exit status of versions.py: "none" while running, "0", "1"

gvars == <<argv, writable, gpc, data, outExists, outFile, outOpened, gout, gexit>>

VARIABLES
    \* ---- add_version_sidebar.py ----
    fs,                \* the files under the root: path -> content (markup tokens)
    ipc,               \* position in add_version_sidebar.py
    template_content,  \* the template file's text, read at line 10
    walk,              \* this run's os.walk order: sequence of [root, filename]
    pos,               \* index in walk of the entry being processed
    soup,              \* the parsed tree of the current file
    target_div,        \* index in soup of the element found at line 23 (0: None)
    printed,           \* paths printed to standard output by this run
    iexit,             \* exit status: "none" while running, "0", "1", "killed"
    error,             \* the exception that ended the run, "none" if none did
    runs,              \* number of runs started
    \* ---- history of the run, for stating the properties ----
    orig0,             \* the files before the first run
    orig,              \* the files when this run started
    clean,             \* every earlier run ended with status 0
    readLog,           \* paths opened for reading by this run, in order
    openedW,           \* paths opened for writing by this run, in order
    written,           \* paths whose rewrite this run completed, in order
    inserted           \* path -> the fragment this run inserted into it

ivars == <<fs, ipc, template_content, walk, pos, soup, target_div, printed, iexit,
           error, runs, orig0, orig, clean, readLog, openedW, written, inserted>>

vars == <<gvars, ivars>>

(***************************************************************************)
(* Bounds.                                                                 *)
(***************************************************************************)
MaxArgs == 3
MaxRuns == 2

\* Branch names given on the command line: a plain name, the name "latest"
\* that the generator also appends itself, the empty string, and names with
\* the two characters a JSON string literal escapes.
BranchNames == {"1.0.x", "latest", "", "a\"b", "c\\"}

RECURSIVE SeqsUpTo(_, _)
SeqsUpTo(S, n) ==
    IF n = 0 THEN {<<>>}
    ELSE LET shorter == SeqsUpTo(S, n - 1)
         IN  shorter \cup {Append(s, x) : s \in shorter, x \in S}

(***************************************************************************)
(* versions.py                                                             *)
(***************************************************************************)
OUTPUT_FILE == "branches.json"

\* f"/dgl_docs/en/{branch}/"
BranchUrl(branch) == "/dgl_docs/en/" \o branch \o "/"

LatestRecord == [name |-> "latest", url |-> "/dgl_docs/"]

\* the list comprehension of line 7 followed by the append of line 9
BranchRecordsLatestFirst(branches) ==
    <<LatestRecord>> \o [i \in 1..Len(branches) |->
                            [name |-> branches[i], url |-> BranchUrl(branches[i])]]
BranchRecords(branches) ==
    Append([i \in 1..Len(branches) |->
               [name |-> branches[i], url |-> BranchUrl(branches[i])]],
           LatestRecord)

\* json.dump's string encoder (ensure_ascii): a quote and a backslash are
\* escaped with a backslash; the other characters of the alphabet modelled
\* are written as they are.
JsonEscapeChar(c) ==
    IF c = "\"" THEN "\\\"" ELSE IF c = "\\" THEN "\\\\" ELSE c

RECURSIVE JsonEscape(_)
JsonEscape(s) ==
    IF Len(s) = 0 THEN ""
    ELSE JsonEscapeChar(SubSeq(s, 1, 1)) \o JsonEscape(SubSeq(s, 2, Len(s)))

JsonString(s) == "\"" \o JsonEscape(s) \o "\""

\* One object of the array at nesting level 2 under indent=2; `last` says
\* whether it is the array's last element (no trailing comma).
DumpRecord(r, last) ==
    << "    {",
       "      \"name\": " \o JsonString(r.name) \o ",",
       "      \"url\": " \o JsonString(r.url),
       IF last THEN "    }" ELSE "    }," >>

RECURSIVE DumpRecords(_, _)
DumpRecords(rs, i) ==
    IF i > Len(rs) THEN <<>>
    ELSE DumpRecord(rs[i], i = Len(rs)) \o DumpRecords(rs, i + 1)

\* json.dump({"branches": rs}, f, indent=2), as the lines of the text written
DumpJson(rs) ==
    IF Len(rs) = 0
    THEN << "{", "  \"branches\": []", "}" >>
    ELSE << "{", "  \"branches\": [" >> \o DumpRecords(rs, 1) \o << "  ]", "}" >>

\* len(sys.argv) < 2
NoBranchArgsOffByOne(a) == Len(a) < 1
NoBranchArgs(a) == Len(a) < 2

USAGE == "Usage: python script.py branch1 branch2 ..."

DoneMessage(f) == "JSON file '" \o f \o "' has been generated successfully."

StaleLines == << "stale" >>

ManifestStart ==
    /\ argv \in {<<"versions.py">> \o bs : bs \in SeqsUpTo(BranchNames, MaxArgs)}
    /\ writable \in BOOLEAN
    /\ outExists \in BOOLEAN
    /\ outFile = IF outExists THEN StaleLines ELSE <<>>
    /\ gpc = "main"
    /\ data = <<>>
    /\ outOpened = FALSE
    /\ gout = <<>>
    /\ gexit = "none"

\* lines 18-20: no branch arguments
MainUsage ==
    /\ gpc = "main"
    /\ NoBranchArgs(argv)
    /\ gout' = Append(gout, USAGE)
    /\ gexit' = "1"
    /\ gpc' = "exited"
    /\ UNCHANGED <<argv, writable, data, outExists, outFile, outOpened>>
    /\ UNCHANGED ivars

\* lines 23-26 and 6-9: branch_names = sys.argv[1:], data is built
MainGenerate ==
    /\ gpc = "main"
    /\ ~NoBranchArgs(argv)
    /\ data' = BranchRecords(SubSeq(argv, 2, Len(argv)))
    /\ gpc' = "open"
    /\ UNCHANGED <<argv, writable, outExists, outFile, outOpened, gout, gexit>>
    /\ UNCHANGED ivars

\* line 11: open(output_file, 'w') creates or truncates the file
OpenOutput ==
    /\ gpc = "open"
    /\ writable
    /\ outExists' = TRUE
    /\ outFile' = <<>>
    /\ outOpened' = TRUE
    /\ gpc' = "dump"
    /\ UNCHANGED <<argv, writable, data, gout, gexit>>
    /\ UNCHANGED ivars

\* line 11 raising: the exception is not caught, the interpreter exits 1
OpenOutputFails ==
    /\ gpc = "open"
    /\ ~writable
    /\ gexit' = "1"
    /\ gpc' = "exited"
    /\ UNCHANGED <<argv, writable, data, outExists, outFile, outOpened, gout>>
    /\ UNCHANGED ivars

\* line 12 and the end of the with block
Dump ==
    /\ gpc = "dump"
    /\ outFile' = DumpJson(data)
    /\ gpc' = "print"
    /\ UNCHANGED <<argv, writable, data, outExists, outOpened, gout, gexit>>
    /\ UNCHANGED ivars

\* line 14, then the script ends
PrintDone ==
    /\ gpc = "print"
    /\ gout' = Append(gout, DoneMessage(OUTPUT_FILE))
    /\ gexit' = "0"
    /\ gpc' = "exited"
    /\ UNCHANGED <<argv, writable, data, outExists, outFile, outOpened>>
    /\ UNCHANGED ivars

\* the generator's variables while only the injector runs
ManifestIdle ==
    /\ argv = <<>>
    /\ writable = FALSE
    /\ outExists = FALSE
    /\ outFile = <<>>
    /\ gpc = "off"
    /\ data = <<>>
    /\ outOpened = FALSE
    /\ gout = <<>>
    /\ gexit = "none"

NextManifest ==
    \/ MainUsage
    \/ MainGenerate
    \/ OpenOutput
    \/ OpenOutputFails
    \/ Dump
    \/ PrintDone

(***************************************************************************)
(* add_version_sidebar.py: markup                                          *)
(*                                                                         *)
(* A file's text is a sequence of markup tokens: a start tag with its      *)
(* class attribute, an end tag, or a run of text. A parsed tree is the     *)
(* sequence of its nodes in document order with every element closed.      *)
(***************************************************************************)
ANCHOR_CLASS == "wy-grid-for-nav"

Open(tag, cls) == [k |-> "open", tag |-> tag, cls |-> cls, s |-> ""]
Close(tag)     == [k |-> "close", tag |-> tag, cls |-> <<>>, s |-> ""]
Text(s)        == [k |-> "text", tag |-> "", cls |-> <<>>, s |-> s]

RECURSIVE ClosesFor(_)
\* the end tags of a stack of open elements, innermost first
ClosesFor(stack) ==
    IF Len(stack) = 0 THEN <<>>
    ELSE <<Close(stack[Len(stack)])>> \o ClosesFor(SubSeq(stack, 1, Len(stack) - 1))

LastOpen(stack, tag) ==
    LET js == {j \in 1..Len(stack) : stack[j] = tag}
    IN  IF js = {} THEN 0 ELSE CHOOSE j \in js : \A j2 \in js : j2 <= j

RECURSIVE ParseFrom(_, _, _, _)
ParseFrom(raw, i, stack, out) ==
    IF i > Len(raw) THEN out \o ClosesFor(stack)
    ELSE LET t == raw[i]
         IN  IF t.k = "open"
             THEN ParseFrom(raw, i + 1, Append(stack, t.tag), Append(out, t))
             ELSE IF t.k = "text"
             THEN ParseFrom(raw, i + 1, stack, Append(out, t))
             ELSE LET j == LastOpen(stack, t.tag)
                  IN  IF j = 0
                      THEN ParseFrom(raw, i + 1, stack, out)
                      ELSE ParseFrom(raw, i + 1, SubSeq(stack, 1, j - 1),
                                     out \o ClosesFor(SubSeq(stack, j, Len(stack))))

\* BeautifulSoup(text, 'html.parser'): a start tag opens an element, an end
\* tag closes the innermost open element of that name and those opened
\* inside it, an end tag with no open element of its name is dropped, and
\* the elements still open at the end of the text are closed.
Parse(raw) == ParseFrom(raw, 1, <<>>, <<>>)

RECURSIVE MergeText(_, _)
MergeText(tree, i) ==
    IF i > Len(tree) THEN <<>>
    ELSE LET rest == MergeText(tree, i + 1)
         IN  IF tree[i].k = "text" /\ Len(rest) > 0 /\ rest[1].k = "text"
             THEN <<Text(tree[i].s \o rest[1].s)>> \o Tail(rest)
             ELSE <<tree[i]>> \o rest

\* str(soup): the tree written out in document order; the text of adjacent
\* strings runs together.
Serialize(tree) == MergeText(tree, 1)

\* a div whose class attribute has the value among its classes
IsAnchor(t) ==
    t.k = "open" /\ t.tag = "div" /\ \E c \in 1..Len(t.cls) : t.cls[c] = ANCHOR_CLASS

\* soup.find('div', class_='wy-grid-for-nav'): the first match in document
\* order, 0 standing for None
FindLast(tree) ==
    LET is == {i \in 1..Len(tree) : IsAnchor(tree[i])}
    IN  IF is = {} THEN 0 ELSE CHOOSE i \in is : \A i2 \in is : i2 <= i
Find(tree) ==
    LET is == {i \in 1..Len(tree) : IsAnchor(tree[i])}
    IN  IF is = {} THEN 0 ELSE CHOOSE i \in is : \A i2 \in is : i <= i2

RECURSIVE MatchClose(_, _, _)
MatchClose(tree, j, depth) ==
    IF tree[j].k = "open" THEN MatchClose(tree, j + 1, depth + 1)
    ELSE IF tree[j].k = "close"
         THEN IF depth = 1 THEN j ELSE MatchClose(tree, j + 1, depth - 1)
         ELSE MatchClose(tree, j + 1, depth)

\* the index of the end tag of the element that starts at index i
ElementEnd(tree, i) == MatchClose(tree, i + 1, 1)

\* target_div.insert_after(fragment): the fragment's nodes become the
\* siblings that follow the element
InsertAfter(tree, i, fragment) ==
    LET e == ElementEnd(tree, i)
    IN  SubSeq(tree, 1, e) \o fragment \o SubSeq(tree, e + 1, Len(tree))

(***************************************************************************)
(* add_version_sidebar.py: the files                                       *)
(***************************************************************************)
folder_path == "."
TEMPLATE_NAME == "version_template.html"
template_file_path == "./version_template.html"

\* os.path.join(root, filename)
JoinPath(root, name) == root \o "/" \o name

\* filename.endswith('.html')
EndsWithHtml(name) ==
    Len(name) >= 5 /\ SubSeq(name, Len(name) - 4, Len(name)) = ".html"

\* The directory tree under the root: the files and the subdirectories of
\* each directory.
Dirs == {".", "./api", "./api/ref"}
DirFiles == [d \in Dirs |->
    IF d = "." THEN {TEMPLATE_NAME, "index.html"}
    ELSE IF d = "./api" THEN {"page.html.bak"}
    ELSE {"leaf.html"}]
DirSubdirs == [d \in Dirs |->
    IF d = "." THEN {"api"}
    ELSE IF d = "./api" THEN {"ref"}
    ELSE {}]

Paths == UNION {{JoinPath(d, n) : n \in DirFiles[d]} : d \in Dirs}

\* the orders in which a directory listing can return a set of names
Orders(S) == {q \in [1..Cardinality(S) -> S] : \A n \in S : \E i \in DOMAIN q : q[i] = n}

Listings == {l \in [Dirs -> UNION {Orders(DirFiles[d]) \cup Orders(DirSubdirs[d]) : d \in Dirs}] :
                \A d \in Dirs : l[d] \in Orders(DirFiles[d])}
SubdirListings == {l \in [Dirs -> UNION {Orders(DirFiles[d]) \cup Orders(DirSubdirs[d]) : d \in Dirs}] :
                \A d \in Dirs : l[d] \in Orders(DirSubdirs[d])}

RECURSIVE WalkFrom(_, _, _)
RECURSIVE WalkSubdirs(_, _, _, _)
WalkSubdirs(d, i, files, subs) ==
    IF i > Len(subs[d]) THEN <<>>
    ELSE WalkFrom(JoinPath(d, subs[d][i]), files, subs) \o WalkSubdirs(d, i + 1, files, subs)

WalkTopOnly(d, files, subs) ==
    [i \in 1..Len(files[d]) |-> [root |-> d, filename |-> files[d][i]]]
\* os.walk(d), top-down, flattened by the two for loops of lines 13-14: the
\* files of a directory in listing order, then each subdirectory in turn
WalkFrom(d, files, subs) ==
    [i \in 1..Len(files[d]) |-> [root |-> d, filename |-> files[d][i]]]
        \o WalkSubdirs(d, 1, files, subs)

WalkOrders == {WalkFrom(folder_path, files, subs) : files \in Listings, subs \in SubdirListings}

(***************************************************************************)
(* add_version_sidebar.py: the run                                         *)
(***************************************************************************)
\* Contents the files can have before the first run.
DocNoAnchor == << Open("p", <<ANCHOR_CLASS>>), Text("a"), Close("div") >>
DocOther    == << Open("div", <<"other">>), Text("b"), Close("div") >>
DocAnchor   == << Open("div", <<ANCHOR_CLASS>>), Text("c"), Close("div"), Text("z") >>
DocNested   == << Open("div", <<"other">>),
                  Open("div", <<"nav", ANCHOR_CLASS>>),
                  Open("div", <<ANCHOR_CLASS>>), Close("div"),
                  Close("div"), Text("y") >>
DocTwo      == << Open("div", <<ANCHOR_CLASS>>), Close("div"),
                  Open("div", <<ANCHOR_CLASS>>) >>
Docs == {DocNoAnchor, DocOther, DocAnchor, DocNested, DocTwo}

TmplUnclosed == << Open("p", <<"version">>), Text("v") >>
TmplText     == << Text("t") >>
TmplAnchor   == << Open("div", <<ANCHOR_CLASS>>), Close("div"), Text("s") >>
TmplEmpty    == << >>
Templates == {TmplUnclosed, TmplText, TmplAnchor, TmplEmpty}

CurPath == JoinPath(walk[pos].root, walk[pos].filename)

\* what line 27 prints: file_path
NamePrinted == walk[pos].filename
PathPrinted == CurPath

\* An exception raised by open, read or write is caught nowhere: the run
\* ends with a traceback.
PcAfterIOErrorSkipFile == "loop"
PcAfterIOError == "failed"

ExitAfter(pc) == IF pc = "failed" THEN "1" ELSE "none"

\* The fragment inserted at lines 28-29 is parsed from template_content, the
\* text read at line 10.
TemplateReadAgain == fs[template_file_path]
TemplateForInsert == template_content

\* What the file holds when the with block of lines 32-33 ends: all of the
\* text written.
ContentOnCloseUnflushed(text) == <<>>
ContentOnClose(text) == text

\* the condition of line 26
ShouldRewriteAlways(found) == TRUE
ShouldRewrite(found) == found # 0

\* What a file opened at line 32 can hold when the write is cut short. The
\* buffered writer hands the text to the file in blocks, the model's texts
\* being two blocks long: none of the text has reached the file, or its
\* first half has.
Prefixes(text) == {SubSeq(text, 1, n) : n \in {0, Len(text) \div 2}}

InjectorStart ==
    /\ fs \in {f \in [Paths -> Docs \cup Templates] :
                 /\ f[template_file_path] \in Templates
                 /\ f["./index.html"] \in Docs
                 /\ f["./api/ref/leaf.html"] \in Docs
                 /\ f["./api/page.html.bak"] = DocAnchor}
    /\ orig0 = fs
    /\ orig = fs
    /\ ipc = "idle"
    /\ template_content = <<>>
    /\ walk = <<>>
    /\ pos = 0
    /\ soup = <<>>
    /\ target_div = 0
    /\ printed = <<>>
    /\ iexit = "none"
    /\ error = "none"
    /\ runs = 0
    /\ clean = TRUE
    /\ readLog = <<>>
    /\ openedW = <<>>
    /\ written = <<>>
    /\ inserted = <<>>

\* the generator's variables stay idle while the injector runs
Init == InjectorStart /\ ManifestIdle

\* the injector's variables while only the generator runs
InjectorIdle ==
    /\ fs = [p \in Paths |-> <<>>]
    /\ orig0 = fs
    /\ orig = fs
    /\ ipc = "off"
    /\ template_content = <<>>
    /\ walk = <<>>
    /\ pos = 0
    /\ soup = <<>>
    /\ target_div = 0
    /\ printed = <<>>
    /\ iexit = "none"
    /\ error = "none"
    /\ runs = 0
    /\ clean = TRUE
    /\ readLog = <<>>
    /\ openedW = <<>>
    /\ written = <<>>
    /\ inserted = <<>>

InitManifest == ManifestStart /\ InjectorIdle

\* The script is started (again): a new process, with the files as the
\* earlier run left them. No run adds or removes a directory entry, so the
\* directories list their names in the same order in every run.
StartRun ==
    /\ ipc \in {"idle", "done", "failed", "killed"}
    /\ runs < MaxRuns
    /\ runs' = runs + 1
    /\ clean' = (clean /\ (runs = 0 \/ iexit = "0"))
    /\ walk' \in (IF runs = 0 THEN WalkOrders ELSE {walk})
    /\ orig' = fs
    /\ ipc' = "load"
    /\ template_content' = <<>>
    /\ pos' = 0
    /\ soup' = <<>>
    /\ target_div' = 0
    /\ printed' = <<>>
    /\ iexit' = "none"
    /\ error' = "none"
    /\ readLog' = <<>>
    /\ openedW' = <<>>
    /\ written' = <<>>
    /\ inserted' = <<>>
    /\ UNCHANGED <<fs, orig0>>
    /\ UNCHANGED gvars

\* lines 9-10
LoadTemplate ==
    /\ ipc = "load"
    /\ template_content' = fs[template_file_path]
    /\ ipc' = "loop"
    /\ UNCHANGED <<fs, walk, pos, soup, target_div, printed, iexit, error, runs, orig0,
                   orig, clean, readLog, openedW, written, inserted>>
    /\ UNCHANGED gvars

\* line 9 or 10 raising
LoadTemplateFails ==
    /\ ipc = "load"
    /\ ipc' = PcAfterIOError
    /\ iexit' = ExitAfter(ipc')
    /\ error' = "IOError"
    /\ UNCHANGED <<fs, template_content, walk, pos, soup, target_div, printed, runs,
                   orig0, orig, clean, readLog, openedW, written, inserted>>
    /\ UNCHANGED gvars

\* lines 13-15: the next name of the walk; one that does not end in .html is
\* passed over
NextEntry ==
    /\ ipc = "loop"
    /\ pos < Len(walk)
    /\ pos' = pos + 1
    /\ ipc' = IF EndsWithHtml(walk[pos'].filename) THEN "read" ELSE "loop"
    /\ UNCHANGED <<fs, template_content, walk, soup, target_div, printed, iexit, error, runs,
                   orig0, orig, clean, readLog, openedW, written, inserted>>
    /\ UNCHANGED gvars

\* lines 16-26: the file is opened, parsed and closed, and the anchor looked up
ReadFile ==
    /\ ipc = "read"
    /\ readLog' = Append(readLog, CurPath)
    /\ soup' = Parse(fs[CurPath])
    /\ target_div' = Find(soup')
    /\ ipc' = IF ShouldRewrite(target_div') THEN "print" ELSE "loop"
    /\ UNCHANGED <<fs, template_content, walk, pos, printed, iexit, error, runs, orig0, orig,
                   clean, openedW, written, inserted>>
    /\ UNCHANGED gvars

\* line 19 or 20 raising (the file cannot be opened, or is not UTF-8)
ReadFileFails ==
    /\ ipc = "read"
    /\ readLog' = Append(readLog, CurPath)
    /\ ipc' = PcAfterIOError
    /\ iexit' = ExitAfter(ipc')
    /\ error' = "IOError"
    /\ UNCHANGED <<fs, template_content, walk, pos, soup, target_div, printed, runs,
                   orig0, orig, clean, openedW, written, inserted>>
    /\ UNCHANGED gvars

\* line 27
PrintPath ==
    /\ ipc = "print"
    /\ printed' = Append(printed, PathPrinted)
    /\ ipc' = "insert"
    /\ UNCHANGED <<fs, template_content, walk, pos, soup, target_div, iexit, error, runs, orig0,
                   orig, clean, readLog, openedW, written, inserted>>
    /\ UNCHANGED gvars

\* lines 28-29; insert_after on None raises AttributeError
InsertTemplate ==
    /\ ipc = "insert"
    /\ LET template_soup == Parse(TemplateForInsert)
       IN  IF target_div = 0
           THEN /\ ipc' = "failed"
                /\ iexit' = "1"
                /\ error' = "AttributeError"
                /\ UNCHANGED <<soup, inserted>>
           ELSE /\ soup' = InsertAfter(soup, target_div, template_soup)
                /\ inserted' = [p \in DOMAIN inserted \cup {CurPath} |->
                                   IF p = CurPath THEN template_soup ELSE inserted[p]]
                /\ ipc' = "open"
                /\ UNCHANGED <<iexit, error>>
    /\ UNCHANGED <<fs, template_content, walk, pos, target_div, printed, runs,
                   orig0, orig, clean, readLog, openedW, written>>
    /\ UNCHANGED gvars

\* line 32: open(file_path, 'w') truncates the file
OpenForWrite ==
    /\ ipc = "open"
    /\ openedW' = Append(openedW, CurPath)
    /\ fs' = [fs EXCEPT ![CurPath] = <<>>]
    /\ ipc' = "write"
    /\ UNCHANGED <<template_content, walk, pos, soup, target_div, printed, iexit, error, runs,
                   orig0, orig, clean, readLog, written, inserted>>
    /\ UNCHANGED gvars

\* line 32 raising: the file is left as it was
OpenForWriteFails ==
    /\ ipc = "open"
    /\ ipc' = PcAfterIOError
    /\ iexit' = ExitAfter(ipc')
    /\ error' = "IOError"
    /\ UNCHANGED <<fs, template_content, walk, pos, soup, target_div, printed, runs,
                   orig0, orig, clean, readLog, openedW, written, inserted>>
    /\ UNCHANGED gvars

\* line 33 and the end of the with block
WriteBack ==
    /\ ipc = "write"
    /\ fs' = [fs EXCEPT ![CurPath] = ContentOnClose(Serialize(soup))]
    /\ written' = Append(written, CurPath)
    /\ ipc' = "loop"
    /\ UNCHANGED <<template_content, walk, pos, soup, target_div, printed, iexit, error, runs,
                   orig0, orig, clean, readLog, openedW, inserted>>
    /\ UNCHANGED gvars

\* line 33 raising part-way (the device is full): some of the text is written
WriteBackFails ==
    /\ ipc = "write"
    /\ \E part \in Prefixes(Serialize(soup)) : fs' = [fs EXCEPT ![CurPath] = part]
    /\ ipc' = PcAfterIOError
    /\ iexit' = ExitAfter(ipc')
    /\ error' = "IOError"
    /\ UNCHANGED <<template_content, walk, pos, soup, target_div, printed, runs,
                   orig0, orig, clean, readLog, openedW, written, inserted>>
    /\ UNCHANGED gvars

\* the walk is exhausted: the script ends
Finish ==
    /\ ipc = "loop"
    /\ pos = Len(walk)
    /\ ipc' = "done"
    /\ iexit' = "0"
    /\ error' = error
    /\ UNCHANGED <<fs, template_content, walk, pos, soup, target_div, printed, runs,
                   orig0, orig, clean, readLog, openedW, written, inserted>>
    /\ UNCHANGED gvars

\* The process is terminated from outside, at any step. Text written but not
\* yet flushed is lost: a file open for writing keeps some of it.
Kill ==
    /\ ipc \in {"load", "loop", "read", "print", "insert", "open", "write"}
    /\ IF ipc = "write"
       THEN \E part \in Prefixes(Serialize(soup)) : fs' = [fs EXCEPT ![CurPath] = part]
       ELSE fs' = fs
    /\ ipc' = "killed"
    /\ iexit' = "killed"
    /\ error' = error
    /\ UNCHANGED <<template_content, walk, pos, soup, target_div, printed, runs,
                   orig0, orig, clean, readLog, openedW, written, inserted>>
    /\ UNCHANGED gvars

Next ==
    \/ StartRun
    \/ LoadTemplate
    \/ LoadTemplateFails
    \/ NextEntry
    \/ ReadFile
    \/ ReadFileFails
    \/ PrintPath
    \/ InsertTemplate
    \/ OpenForWrite
    \/ OpenForWriteFails
    \/ WriteBack
    \/ WriteBackFails
    \/ Finish
    \/ Kill

Spec == Init /\ [][Next]_vars

SpecManifest == InitManifest /\ [][NextManifest]_vars

(***************************************************************************)
(* Properties of versions.py (checked under SpecManifest)                  *)
(***************************************************************************)
\* Reading the manifest back, as a JSON reader does: a backslash makes the
\* character after it literal.
RECURSIVE JsonUnescape(_)
JsonUnescape(s) ==
    IF Len(s) = 0 THEN ""
    ELSE IF SubSeq(s, 1, 1) = "\\" /\ Len(s) >= 2
         THEN SubSeq(s, 2, 2) \o JsonUnescape(SubSeq(s, 3, Len(s)))
         ELSE SubSeq(s, 1, 1) \o JsonUnescape(SubSeq(s, 2, Len(s)))

StartsWith(line, prefix) ==
    Len(line) >= Len(prefix) /\ SubSeq(line, 1, Len(prefix)) = prefix
EndsWith(line, suffix) ==
    Len(line) >= Len(suffix)
        /\ SubSeq(line, Len(line) - Len(suffix) + 1, Len(line)) = suffix

\* the string literal between a line's fixed prefix and suffix, decoded
Member(line, prefix, suffix) ==
    JsonUnescape(SubSeq(line, Len(prefix) + 1, Len(line) - Len(suffix)))

NamePrefix == "      \"name\": \""
UrlPrefix  == "      \"url\": \""

ArrayLength(lines) == (Len(lines) - 4) \div 4

\* the text is an object with the one key "branches" holding an array of
\* objects with the keys "name" and "url", in that order
IsManifest(lines) ==
    /\ Len(lines) >= 4
    /\ (Len(lines) - 4) % 4 = 0
    /\ lines[1] = "{"
    /\ lines[2] = "  \"branches\": ["
    /\ lines[Len(lines) - 1] = "  ]"
    /\ lines[Len(lines)] = "}"
    /\ \A i \in 1..ArrayLength(lines) :
          LET at == 2 + 4 * (i - 1)
          IN  /\ lines[at + 1] = "    {"
              /\ StartsWith(lines[at + 2], NamePrefix) /\ EndsWith(lines[at + 2], "\",")
              /\ StartsWith(lines[at + 3], UrlPrefix) /\ EndsWith(lines[at + 3], "\"")
              /\ lines[at + 4] = IF i = ArrayLength(lines) THEN "    }" ELSE "    },"

LoadBranches(lines) ==
    [i \in 1..ArrayLength(lines) |->
        LET at == 2 + 4 * (i - 1)
        IN  [name |-> Member(lines[at + 2], NamePrefix, "\","),
             url  |-> Member(lines[at + 3], UrlPrefix, "\"")]]

BranchArgs == SubSeq(argv, 2, Len(argv))

\* C1: once the manifest is written, its "branches" array has one element
\* more than there are branch names; element i is the i-th branch name with
\* the url /dgl_docs/en/<name>/, in input order with duplicates kept; and
\* the last element is {name: "latest", url: "/dgl_docs/"}.
C1_ManifestListsBranchesThenLatest ==
    (gpc = "print" \/ gexit = "0") =>
        /\ IsManifest(outFile)
        /\ LET arr == LoadBranches(outFile)
               n   == Len(BranchArgs)
           IN  /\ n >= 1
               /\ Len(arr) = n + 1
               /\ \A i \in 1..n :
                     arr[i] = [name |-> BranchArgs[i],
                               url  |-> "/dgl_docs/en/" \o BranchArgs[i] \o "/"]
               /\ arr[n + 1] = [name |-> "latest", url |-> "/dgl_docs/"]

\* a manifest written for a repeated name with a quote in it, then "latest"
C1_Witness ==
    /\ gexit = "0"
    /\ BranchArgs = << "a\"b", "a\"b", "latest" >>
    /\ Len(LoadBranches(outFile)) = 4

\* C2: with no branch argument the generator prints the usage message, exits
\* with status 1 and never creates, truncates or overwrites the output file;
\* with at least one argument and a writable output path it writes the file
\* and exits with status 0.
C2_UsageOrWrite ==
    /\ Len(argv) < 2 =>
          /\ gpc \in {"main", "exited"}
          /\ gpc = "exited" <=> gexit = "1"
          /\ ~outOpened
          /\ outFile = (IF outExists THEN StaleLines ELSE <<>>)
          /\ gexit \in {"none", "1"}
          /\ gexit = "1" => gout = <<USAGE>>
    /\ (Len(argv) >= 2 /\ writable) =>
          /\ gexit \in {"none", "0"}
          /\ gpc = "exited" <=> gexit = "0"
          /\ gexit = "0" => (outOpened /\ outExists /\ IsManifest(outFile))

\* the usage exit beside an output file that was there before
C2_Witness ==
    /\ Len(argv) = 1
    /\ gexit = "1"
    /\ gout = <<USAGE>>
    /\ outExists
    /\ outFile = StaleLines

(***************************************************************************)
(* Properties of add_version_sidebar.py (checked under Spec)               *)
(***************************************************************************)
Range(q) == {q[i] : i \in DOMAIN q}

Occurrences(q, x) == Cardinality({i \in DOMAIN q : q[i] = x})

\* the name after the last "/" of a path ends in the five characters ".html"
HtmlPaths == {p \in Paths : \E stem \in {SubSeq(p, 1, n) : n \in 0..Len(p)} : p = stem \o ".html"}

\* the i-th path of this run's walk
WalkPath(i) == walk[i].root \o "/" \o walk[i].filename

AnchorNode(t) == t.k = "open" /\ t.tag = "div" /\ ANCHOR_CLASS \in Range(t.cls)

HasAnchor(text) == \E i \in DOMAIN Parse(text) : AnchorNode(Parse(text)[i])

\* start tags minus end tags among tree[a..j]
RECURSIVE Depth(_, _, _)
Depth(tree, a, j) ==
    IF j < a THEN 0
    ELSE Depth(tree, a, j - 1)
            + (IF tree[j].k = "open" THEN 1 ELSE IF tree[j].k = "close" THEN -1 ELSE 0)

\* the rewrite the contract asks for: the fragment spliced in right after the
\* end of the first anchor element (the shortest balanced run of nodes that
\* starts at the first anchor start tag), everything else as it was
Rewritten(text, fragment) ==
    LET tree == Parse(text)
        a == CHOOSE i \in DOMAIN tree :
                 AnchorNode(tree[i]) /\ \A j \in 1..(i - 1) : ~AnchorNode(tree[j])
        e == CHOOSE j \in a..Len(tree) :
                 Depth(tree, a, j) = 0 /\ \A j2 \in a..(j - 1) : Depth(tree, a, j2) > 0
    IN  Serialize([i \in 1..(Len(tree) + Len(fragment)) |->
                      IF i <= e THEN tree[i]
                      ELSE IF i <= e + Len(fragment) THEN fragment[i - e]
                      ELSE tree[i - Len(fragment)]])

\* what a file is to hold when a run that started from `before` is through
\* with it
Final(before, p) ==
    IF p \in HtmlPaths /\ HasAnchor(before[p])
    THEN Rewritten(before[p], Parse(before[template_file_path]))
    ELSE before[p]

\* C3: a .html file that holds an anchor div is rewritten, by one run, with
\* exactly one copy of the template content as the siblings right after the
\* first anchor div in document order, the rest of the document unchanged.
C3_TemplateAfterFirstAnchor ==
    \A p \in HtmlPaths :
        (HasAnchor(orig[p]) /\ (ipc = "done" \/ p \in Range(written))) =>
            fs[p] = Rewritten(orig[p], Parse(orig[template_file_path]))

\* a completed run over a file whose first anchor is nested and holds a
\* second anchor
C3_Witness ==
    /\ ipc = "done"
    /\ orig["./index.html"] = DocNested
    /\ orig[template_file_path] = TmplUnclosed
    /\ fs["./index.html"] # orig["./index.html"]
    /\ "./index.html" \in Range(written)

\* C4: a .html file without an anchor div keeps its content, is never opened
\* for writing, raises no error of its own, and the run goes on to the next
\* file after it.
C4_NoAnchorUntouched ==
    \A p \in HtmlPaths :
        ~HasAnchor(orig[p]) =>
            /\ fs[p] = orig[p]
            /\ p \notin Range(openedW)
            /\ p \notin Range(printed)
            /\ error # "AttributeError"
            /\ (pos > 0 /\ WalkPath(pos) = p /\ p \in Range(readLog) /\ error = "none"
                    /\ ipc # "killed") => ipc \in {"loop", "done"}
            /\ ipc = "done" => p \in Range(readLog)

\* a completed run that passed over a file without an anchor (whose text is
\* not what the serializer would write) and rewrote a later file
C4_Witness ==
    /\ ipc = "done"
    /\ orig["./index.html"] = DocNoAnchor
    /\ Serialize(Parse(orig["./index.html"])) # orig["./index.html"]
    /\ "./api/ref/leaf.html" \in Range(written)

\* C6: in a run that ends without I/O failure every file under the root, at
\* any depth, whose name ends in .html is read exactly once; and no file
\* whose name does not end in .html is ever read, opened for writing or
\* changed.
C6_EveryHtmlOnceNothingElse ==
    /\ ipc = "done" => \A p \in HtmlPaths : Occurrences(readLog, p) = 1
    /\ \A p \in Paths \ HtmlPaths :
          /\ p \notin Range(readLog)
          /\ p \notin Range(openedW)
          /\ fs[p] = orig0[p]
    /\ \A p \in Paths : Occurrences(readLog, p) <= 1

\* a completed run that rewrote the file two directories down and left the
\* .html.bak file, which holds an anchor, alone
C6_Witness ==
    /\ ipc = "done"
    /\ Len(readLog) = 3
    /\ "./api/ref/leaf.html" \in Range(written)
    /\ HasAnchor(fs["./api/page.html.bak"])

RECURSIVE Copies(_, _)
\* k copies of a fragment, one after the other
Copies(fragment, k) == IF k = 0 THEN <<>> ELSE fragment \o Copies(fragment, k - 1)

\* C5: after k runs, each completed without failure, a file that held an
\* anchor element before the first run holds k copies of the template
\* fragment, one after the other, right after that anchor element.
C5_KRunsKCopies ==
    (ipc = "done" /\ clean) =>
        \A p \in HtmlPaths :
            HasAnchor(orig0[p]) =>
                fs[p] = Rewritten(orig0[p], Copies(Parse(orig0[template_file_path]), runs))

IsPrefix(q, r) == Len(q) <= Len(r) /\ SubSeq(r, 1, Len(q)) = q

\* the positions in the walk of the paths of q increase strictly
InWalkOrder(q) ==
    \A i \in 1..Len(q) :
        \E j \in 1..Len(walk) :
            /\ WalkPath(j) = q[i]
            /\ i > 1 => \E j0 \in 1..(j - 1) : WalkPath(j0) = q[i - 1]

\* C7 as stated: at every point of a run the paths printed are the files
\* whose content the run has modified, in the order they were processed.
C7_PrintedEqualsModified ==
    /\ Range(printed) = {p \in Paths : fs[p] # orig[p]}
    /\ InWalkOrder(printed)

\* C7, amended: the paths are printed in the order the files are processed,
\* each once. A file is opened for writing only after its path is printed,
\* so at every point every file the run has changed has its path printed,
\* and the files rewritten are the paths printed except possibly the last
\* path printed: the file being processed, or the one an I/O error or a
\* termination stopped the run at. When a run ends with status 0 the paths
\* printed are exactly the files rewritten.
C7_PrintedBeforeRewritten ==
    /\ InWalkOrder(printed)
    /\ {p \in Paths : fs[p] # orig[p]} \subseteq Range(printed)
    /\ IsPrefix(written, openedW)
    /\ IsPrefix(openedW, printed)
    /\ Len(printed) <= Len(written) + 1
    /\ Len(printed) > Len(written) =>
          /\ ipc \in {"insert", "open", "write", "failed", "killed"}
          /\ printed[Len(printed)] = WalkPath(pos)
    /\ iexit = "0" => printed = written

\* a run stopped by an I/O error on the second file it printed, the file
\* left as it was
C7_Witness ==
    /\ error = "IOError"
    /\ Len(printed) = 2
    /\ Len(written) = 1
    /\ fs[printed[2]] = orig[printed[2]]

\* C8: an I/O error ends the run at once and nothing is retried. If the
\* template cannot be read no file is read or changed; if the k-th file of
\* the walk cannot be read or written, no later file is read or changed and
\* the files rewritten before it keep their new content.
C8_IOErrorAbortsRun ==
    error = "IOError" =>
        /\ ipc = "failed"
        /\ iexit = "1"
        /\ pos = 0 => (readLog = <<>> /\ openedW = <<>> /\ fs = orig)
        /\ \A j \in 1..Len(walk) :
              /\ j > pos =>
                    /\ WalkPath(j) \notin Range(readLog)
                    /\ WalkPath(j) \notin Range(openedW)
                    /\ fs[WalkPath(j)] = orig[WalkPath(j)]
              /\ (j < pos /\ WalkPath(j) \in Range(written)) =>
                    fs[WalkPath(j)] = Rewritten(orig[WalkPath(j)],
                                                Parse(orig[template_file_path]))
        /\ \A p \in Paths : Occurrences(readLog, p) <= 1 /\ Occurrences(openedW, p) <= 1

\* a run that rewrote the first file and failed at the second, a later
\* anchored file left with its first content
C8_Witness ==
    /\ error = "IOError"
    /\ Len(written) = 1
    /\ fs[written[1]] # orig[written[1]]
    /\ pos < Len(walk)
    /\ HasAnchor(orig["./api/ref/leaf.html"])
    /\ pos > 0 /\ WalkPath(pos) # "./api/ref/leaf.html"
    /\ fs["./api/ref/leaf.html"] = orig["./api/ref/leaf.html"]

\* C9: files are processed one at a time. In every state of a run, also one
\* left by a termination at any step, every file before the current one in
\* walk order is in its final state, every file after it has the content it
\* had when the run started, and so at most one file is partially written.
C9_OneFileAtATime ==
    /\ \A j \in 1..Len(walk) :
          /\ j < pos => fs[WalkPath(j)] = Final(orig, WalkPath(j))
          /\ j > pos => fs[WalkPath(j)] = orig[WalkPath(j)]
    /\ Cardinality({p \in Paths : fs[p] # orig[p] /\ fs[p] # Final(orig, p)}) <= 1
    /\ ipc \in {"loop", "done"} =>
          \A j \in 1..pos : fs[WalkPath(j)] = Final(orig, WalkPath(j))

\* a run terminated while writing the last file: that file holds part of its
\* new text, an earlier file all of its new text
C9_Witness ==
    /\ ipc = "killed"
    /\ pos = Len(walk)
    /\ Len(written) >= 1
    /\ Len(fs[WalkPath(pos)]) > 0
    /\ fs[WalkPath(pos)] # orig[WalkPath(pos)]
    /\ fs[WalkPath(pos)] # Final(orig, WalkPath(pos))

\* C10: the template is read once per run: the fragment inserted into every
\* file is the template file's content at the start of the run, also after
\* the run has rewritten the template file itself.
C10_TemplateReadOnce ==
    /\ \A p \in DOMAIN inserted : inserted[p] = Parse(orig[template_file_path])
    /\ ipc \in {"loop", "read", "print", "insert", "open", "write", "done"} =>
          template_content = orig[template_file_path]

\* the template file holds an anchor and was rewritten first; a file
\* processed after it got the fragment
C10_Witness ==
    /\ ipc = "done"
    /\ fs[template_file_path] # orig[template_file_path]
    /\ Len(written) >= 2
    /\ written[1] = template_file_path
    /\ written[2] \in DOMAIN inserted
    /\ fs[written[2]] = Rewritten(orig[written[2]], Parse(orig[template_file_path]))

====
